---- MODULE Spec2Model ----
(***************************************************************************)
(* The streaming audio assembly pipeline of app/api/endpoints/speech.py:   *)
(* crossfade_pcm, generate_speech_streaming and generate_speech_internal.  *)
(*                                                                         *)
(* Samples are exact rationals num/den (float32 rounding is not modelled). *)
(* Every engine sample carries the tag <<i, j>> of the chunk index i and   *)
(* the sample index j it came from, so that what is yielded can be traced  *)
(* back to what was synthesized.  Chunk indexes are 0-based as in the      *)
(* code's "for i, chunk in enumerate(chunks)".                             *)
(***************************************************************************)
EXTENDS Integers, Sequences, FiniteSets, TLC

(* ------------------------------ bounds --------------------------------- *)

\* longest synthesized buffer, in samples
MaxLen == 3
\* largest number of chunks the splitter returns
MaxSegs == 3
\* engine waveforms are numbered 0..MaxWave
MaxWave == 1
\* fade_samples of the model: the engine's sample rate is FadeUnits * 100 Hz
FadeUnits == 2

(* --------------------------- program constants ------------------------- *)

\* model.sr, scaled down (the real engine reports 24000)
sample_rate == FadeUnits * 100
fade_ms == 10
fade_samples == (sample_rate * fade_ms) \div 1000
channels == 1
bits_per_sample == 32
\* Config.MAX_TOTAL_LENGTH, scaled down
MAX_TOTAL_LENGTH == 2
\* Config.MEMORY_CLEANUP_INTERVAL, scaled down
MEMORY_CLEANUP_INTERVAL == 2

(* ------------------------------ samples -------------------------------- *)

Min2(a, b) == IF a < b THEN a ELSE b
Max2(a, b) == IF a > b THEN a ELSE b

\* sample j (0-based) of waveform w, in units of 1.0: values run over -2..2,
\* so both in-range and out-of-range samples occur
WaveValue(w, j) == ((3 * w + 2 * j) % 5) - 2

\* the sample the engine returns at index j of chunk i when its waveform is w
EngineSample(i, j, w) == [num |-> WaveValue(w + i, j), den |-> 1, src |-> {<<i, j>>}]

\* a * (wn / wd)
Scale(a, wn, wd) == [num |-> a.num * wn, den |-> a.den * wd, src |-> a.src]

\* a + b
Plus(a, b) ==
    [num |-> a.num * b.den + b.num * a.den, den |-> a.den * b.den,
     src |-> a.src \cup b.src]

\* a = b as numbers
SameValue(a, b) == a.num * b.den = b.num * a.den

\* np.clip(x, -1, 1) on one sample
ClipSample(a) ==
    IF a.num > a.den THEN [num |-> 1, den |-> 1, src |-> a.src]
    ELSE IF a.num < -a.den THEN [num |-> -1, den |-> 1, src |-> a.src]
    ELSE a

(* --------------------------- 2-D numpy arrays -------------------------- *)

\* an array of shape (n0, n1): rows is a sequence of n0 rows of n1 samples
Array(n0, n1, rows) == [n0 |-> n0, n1 |-> n1, rows |-> rows]

\* Python's None, where an array may stand
None == [n0 |-> -1, n1 |-> -1, rows |-> <<>>]

\* the engine's buffer of T samples of waveform w for chunk i, in layout
\* [channels, samples] or [samples, channels]
EngineBuffer(i, T, w, layout) ==
    IF layout = "channels_first"
    THEN Array(channels, T, [c \in 1..channels |-> [j \in 1..T |-> EngineSample(i, j - 1, w)]])
    ELSE Array(T, channels, [j \in 1..T |-> [c \in 1..channels |-> EngineSample(i, j - 1, w)]])

\* a.T
Transpose(a) ==
    Array(a.n1, a.n0, [r \in 1..a.n1 |-> [c \in 1..a.n0 |-> a.rows[c][r]]])

\* the index a slice bound k denotes on an axis of length n
SliceIndex(k, n) == IF k < 0 THEN Max2(k + n, 0) ELSE Min2(k, n)

\* a[:, lo:hi] with lo, hi already resolved to 0..n1
Columns(a, lo, hi) ==
    LET w == Max2(hi - lo, 0)
    IN  Array(a.n0, w, [r \in 1..a.n0 |-> [c \in 1..w |-> a.rows[r][lo + c]]])

\* a[:, :stop]
SliceTo(a, stop) == Columns(a, 0, SliceIndex(stop, a.n1))

\* a[:, start:]
SliceFrom(a, start) == Columns(a, SliceIndex(start, a.n1), a.n1)

\* np.clip(a, -1, 1)
Clip(a) ==
    Array(a.n0, a.n1, [r \in 1..a.n0 |-> [c \in 1..a.n1 |-> ClipSample(a.rows[r][c])]])

RECURSIVE ConcatRows(_, _)
ConcatRows(rows, k) ==
    IF k > Len(rows) THEN <<>> ELSE rows[k] \o ConcatRows(rows, k + 1)

\* the samples of a.astype(np.float32).tobytes(), in C order
ToBytes(a) == ConcatRows(a.rows, 1)

\* (mutant) np.linspace with its default endpoint=True
LinspaceEndpoint(start, stop, num, t) ==
    IF num = 1 THEN <<start, 1>> ELSE <<start * (num - 1) + t * (stop - start), num - 1>>

\* np.linspace(start, stop, num, endpoint=False)[t] as <<numerator, denominator>>
Linspace(start, stop, num, t) == <<start * num + t * (stop - start), num>>

\* whether numpy broadcasts row counts r1 and r2 against each other
Broadcasts(r1, r2) == r1 = r2 \/ r1 = 1 \/ r2 = 1

BroadcastRows(r1, r2) == IF r1 = 1 THEN r2 ELSE r1

\* the row of a that broadcasting pairs with row r of the result
BroadcastRow(a, r) == IF a.n0 = 1 THEN a.rows[1] ELSE a.rows[r]

(* ---------------------------- crossfade_pcm ---------------------------- *)

\* prev_pcm[:, -fade_samples:] * fade_out + next_pcm[:, :fade_samples] * fade_in
Blend(prev_pcm, next_pcm, fs) ==
    LET tail == SliceFrom(prev_pcm, -fs)
        head == SliceTo(next_pcm, fs)
        n0   == BroadcastRows(tail.n0, head.n0)
    IN  Array(n0, fs,
              [r \in 1..n0 |-> [c \in 1..fs |->
                  Plus(Scale(BroadcastRow(tail, r)[c],
                             Linspace(1, 0, fs, c - 1)[1], Linspace(1, 0, fs, c - 1)[2]),
                       Scale(BroadcastRow(head, r)[c],
                             Linspace(0, 1, fs, c - 1)[1], Linspace(0, 1, fs, c - 1)[2]))]])

\* (mutant) the head of next_pcm is cut off also when nothing is blended
crossfade_pcm_always_trims(prev_pcm, next_pcm, fs) ==
    IF prev_pcm = None \/ prev_pcm.n1 < fs \/ next_pcm.n1 < fs
    THEN [exc |-> FALSE, cross |-> None, rest |-> SliceFrom(next_pcm, fs)]
    ELSE IF ~Broadcasts(prev_pcm.n0, next_pcm.n0)
    THEN [exc |-> TRUE, cross |-> None, rest |-> None]
    ELSE [exc |-> FALSE, cross |-> Blend(prev_pcm, next_pcm, fs),
          rest |-> SliceFrom(next_pcm, fs)]

\* crossfade_pcm(prev_pcm, next_pcm, fade_samples): exc is set when numpy
\* raises on the blend (shapes that do not broadcast)
crossfade_pcm(prev_pcm, next_pcm, fs) ==
    IF prev_pcm = None \/ prev_pcm.n1 < fs \/ next_pcm.n1 < fs
    THEN [exc |-> FALSE, cross |-> None, rest |-> next_pcm]
    ELSE IF ~Broadcasts(prev_pcm.n0, next_pcm.n0)
    THEN [exc |-> TRUE, cross |-> None, rest |-> None]
    ELSE [exc |-> FALSE, cross |-> Blend(prev_pcm, next_pcm, fs),
          rest |-> SliceFrom(next_pcm, fs)]

(* ------------------------- the request's state ------------------------- *)

VARIABLES
    req,              \* per request: the coroutine's locals, position and effects
    REQUEST_COUNTER,  \* the module's global request counter
    cleanups,         \* number of cleanup_memory() calls so far
    cf,               \* crossfade_pcm applied on its own: its inputs and result
    client            \* an example client: the response it reads and what it played

vars == <<req, REQUEST_COUNTER, cleanups, cf, client>>

Reqs == {1, 2}

Layouts == {"channels_first", "samples_first"}

\* a call of update_tts_status; cur and tot are -1 when the call passes none,
\* msg is "" when it passes no error_message
StatusUpdate(status, cur, tot) ==
    [status |-> status, cur |-> cur, tot |-> tot, msg |-> ""]

Upd(q, status, cur, tot) ==
    [q EXCEPT !.statusLog = Append(@, StatusUpdate(status, cur, tot))]

\* update_tts_status(request_id, TTSStatus.ERROR, error_message=msg)
UpdError(q, msg) ==
    [q EXCEPT !.statusLog = Append(@, [StatusUpdate("ERROR", -1, -1) EXCEPT !.msg = msg])]

\* Config.ENABLE_MEMORY_MONITORING
ENABLE_MEMORY_MONITORING == TRUE

\* one item handed to the consumer by a yield statement
Item(role, i, samples) ==
    [role |-> role, i |-> i, samples |-> samples, dtype |-> "float32"]

\* header_data[:44] of the placeholder file written by ta.save
\* int.to_bytes(n, "little"): the n low bytes of v, least significant first
LE(v, n) == [k \in 1..n |-> (v \div (256 ^ (k - 1))) % 256]

\* the four-character chunk identifiers of a RIFF/WAVE file, as byte values
RIFF == <<82, 73, 70, 70>>
WAVE == <<87, 65, 86, 69>>
FMT == <<102, 109, 116, 32>>
FACT == <<102, 97, 99, 116>>
DATA == <<100, 97, 116, 97>>

\* the sample encodings ta.save picks for a float32 tensor when the call
\* names neither encoding nor bits_per_sample, as line 439 does: IEEE float
\* 32 (format tag 3) or signed PCM 16 (format tag 1), by the backend in use
TorchDefaultEncodings == {[tag |-> 3, bits |-> 32], [tag |-> 1, bits |-> 16]}

\* torch.zeros(1, sample_rate): the shape of the placeholder tensor
temp_audio == <<1, sample_rate>>

\* ta.save(header_buffer, temp_audio, sample_rate, format="wav"): the bytes
\* of the file; the fmt chunk is the first chunk, a non-PCM encoding carries
\* a fact chunk before the data chunk
ta_save(shape, rate, enc) ==
    LET nch == shape[1]
        frames == shape[2]
        block == (nch * enc.bits) \div 8
        core == LE(enc.tag, 2) \o LE(nch, 2) \o LE(rate, 4) \o LE(rate * block, 4)
                    \o LE(block, 2) \o LE(enc.bits, 2)
        fact == IF enc.tag = 1 THEN <<>> ELSE FACT \o LE(4, 4) \o LE(frames, 4)
        body == WAVE \o FMT \o LE(16, 4) \o core \o fact
                    \o DATA \o LE(frames * block, 4) \o [k \in 1..(frames * block) |-> 0]
    IN  RIFF \o LE(Len(body), 4) \o body

\* header_buffer.getvalue()
header_data(enc) == ta_save(temp_audio, sample_rate, enc)

\* (mutant) the whole placeholder file is sent
wav_header_unsliced(enc) == header_data(enc)

\* wav_header = header_data[:44]
wav_header(enc) == SubSeq(header_data(enc), 1, Min2(44, Len(header_data(enc))))

\* the item "yield wav_header" hands over
WavHeader(enc) ==
    [role |-> "header", i |-> -1, samples |-> <<>>, bytes |-> wav_header(enc)]

\* the state of a request before its coroutine first runs
NewRequest(mode, text_len, wave) ==
    [mode |-> mode, pc |-> "new", ypos |-> "none", text_len |-> text_len, wave |-> wave,
     split |-> FALSE, nchunks |-> 0, i |-> 0,
     prev_pcm |-> None, np_pcm |-> None, cross |-> None, np_pcm_trimmed |-> None,
     out |-> <<>>, calls |-> <<>>, running |-> 0, maxRunning |-> 0,
     returned |-> <<>>, chans |-> <<>>, raisedAt |-> -1, npError |-> FALSE,
     statusLog |-> <<>>, fin |-> FALSE, gone |-> FALSE, accepted |-> 0,
     model |-> "unset", wav_enc |-> [tag |-> 0, bits |-> 0], finishFails |-> "none",
     temp_voice |-> "none",
     audio_chunks |-> <<>>, final_audio |-> "None", deletes |-> <<>>,
     buffer |-> <<>>, hasBuffer |-> FALSE]

\* leaving the frame: the coroutine's locals are dropped
ReleaseLocals(q) ==
    [q EXCEPT !.prev_pcm = None, !.np_pcm = None, !.cross = None,
              !.np_pcm_trimmed = None]

\* the finally clause of generate_speech_streaming (the cleanup_memory call
\* it may make is counted by the action, which owns the globals)
StreamFinally(q) == ReleaseLocals([q EXCEPT !.fin = TRUE])

\* "except Exception" of generate_speech_streaming, then its finally clause
StreamExceptBody(q) ==
    StreamFinally([UpdError(q, "TTS streaming failed") EXCEPT !.pc = "raised", !.ypos = "none"])

\* (mutant) the loop walks the chunks from the last to the first
ChunkReversed(q) == q.nchunks - 1 - q.i

\* the chunk "for i, chunk in enumerate(chunks)" binds at loop index q.i
Chunk(q) == q.i

\* (mutant) the call is started together with a look-ahead call for the next chunk
SubmitGenerateLookAhead(q) ==
    [q EXCEPT !.calls = Append(@, Chunk(q)), !.running = @ + 2,
              !.maxRunning = Max2(@, q.running + 2),
              !.pc = "await_gen", !.ypos = "none"]

\* loop.run_in_executor(None, lambda: model.generate(text=chunk, ...))
SubmitGenerate(q) ==
    [q EXCEPT !.calls = Append(@, Chunk(q)), !.running = @ + 1,
              !.maxRunning = Max2(@, q.running + 1),
              !.pc = "await_gen", !.ypos = "none"]

\* a yield statement: the item is handed over and the generator suspends
Yield(q, role, samples) ==
    [q EXCEPT !.out = Append(@, Item(role, q.i, samples)),
              !.pc = "at_yield", !.ypos = role]

\* the head of "for i, chunk in enumerate(chunks)" and what follows the loop
StreamLoopHead(q) ==
    IF q.i < q.nchunks
    THEN SubmitGenerate(q)
    ELSE StreamFinally([Upd(q, "COMPLETED", -1, -1) EXCEPT !.pc = "done", !.ypos = "none"])

\* (mutant) the text length is not checked
PreludeUnchecked(q, loaded) ==
    LET q1 == Upd([q EXCEPT !.model = IF loaded THEN "model" ELSE "None"],
                  "INITIALIZING", -1, -1)
        q3 == Upd(Upd(q1, "INITIALIZING", -1, -1), "PROCESSING_TEXT", -1, -1)
    IN  IF ~loaded THEN [UpdError(q1, "Model not loaded") EXCEPT !.pc = "raised"] ELSE q3

\* (mutant) an engine error is swallowed and the loop goes on with the next chunk
StreamExceptSkipsChunk(q) == StreamLoopHead([q EXCEPT !.i = @ + 1])

\* the handler the try block of generate_speech_streaming runs on an Exception
StreamExcept(q) == StreamExceptBody(q)

\* (mutant) the model is not checked
PreludeModelUnchecked(q, loaded) ==
    LET q1 == Upd([q EXCEPT !.model = IF loaded THEN "model" ELSE "None"],
                  "INITIALIZING", -1, -1)
        q3 == Upd(Upd(q1, "INITIALIZING", -1, -1), "PROCESSING_TEXT", -1, -1)
    IN  IF q.text_len > MAX_TOTAL_LENGTH
        THEN [UpdError(q3, "Input text too long") EXCEPT !.pc = "raised"]
        ELSE q3

\* the checks both entry points make before their try block; model is what
\* get_model() returned
Prelude(q, loaded) ==
    LET q1 == Upd([q EXCEPT !.model = IF loaded THEN "model" ELSE "None"],
                  "INITIALIZING", -1, -1)
        q2 == IF ENABLE_MEMORY_MONITORING THEN Upd(q1, "INITIALIZING", -1, -1) ELSE q1
        q3 == Upd(q2, "PROCESSING_TEXT", -1, -1)
    IN  IF ~loaded
        THEN [UpdError(q1, "Model not loaded") EXCEPT !.pc = "raised"]
        ELSE IF q.text_len > MAX_TOTAL_LENGTH
        THEN [UpdError(q3, "Input text too long") EXCEPT !.pc = "raised"]
        ELSE q3

\* generate_speech_streaming from its entry to the yield of the header;
\* loaded: get_model() is not None; n: len(chunks) the splitter returns;
\* enc: the encoding ta.save writes the placeholder file in
StreamBegin(q, loaded, n, enc) ==
    LET p == Prelude(q, loaded)
    IN  IF p.pc = "raised" THEN p
        ELSE LET c == [Upd(p, "CHUNKING", -1, -1) EXCEPT !.split = TRUE, !.nchunks = n]
                 g == Upd(c, "GENERATING_AUDIO", 0, n)
             IN  [Yield(g, "header", <<>>) EXCEPT !.out = <<WavHeader(enc)>>, !.wav_enc = enc]

\* (mutant) only a buffer with more rows than columns is transposed
NormalizeLayoutTallOnly(a) == IF a.n0 > a.n1 THEN Transpose(a) ELSE a

\* "if np_pcm.shape[0] < np_pcm.shape[-1]: np_pcm = np_pcm.T"
NormalizeLayout(a) == IF a.n0 < a.n1 THEN Transpose(a) ELSE a

\* (mutant) the last fade_samples columns are cut whatever the length
HoldBackUnguarded(a) == SliceTo(a, -fade_samples)

\* "x[:, :-fade_samples] if x.shape[1] > fade_samples else x"
HoldBack(a) == IF a.n1 > fade_samples THEN SliceTo(a, -fade_samples) ELSE a

\* (mutant) the samples are sent as they are
PcmBytesUnclipped(a) == ToBytes(a)

\* np.clip(x, -1, 1).astype(np.float32).tobytes()
PcmBytes(a) == ToBytes(Clip(a))

\* the coroutine resumes with the engine's tensor and runs to its next yield;
\* np_pcm.min() in the debug print raises ValueError on a buffer of no samples
StreamAfterGenerate(q, audio_tensor) ==
    LET np_pcm == NormalizeLayout(audio_tensor)
        q1 == [q EXCEPT !.np_pcm = np_pcm]
    IN  IF np_pcm.n0 * np_pcm.n1 = 0
        THEN StreamExcept([q1 EXCEPT !.npError = TRUE])
        ELSE IF q.prev_pcm = None
        THEN Yield(q1, "first", PcmBytes(HoldBack(np_pcm)))
        ELSE LET r == crossfade_pcm(q.prev_pcm, np_pcm, fade_samples)
                 q2 == [q1 EXCEPT !.cross = r.cross, !.np_pcm_trimmed = r.rest]
             IN  IF r.exc THEN StreamExcept([q1 EXCEPT !.npError = TRUE])
                 ELSE IF r.cross # None THEN Yield(q2, "cross", PcmBytes(r.cross))
                 ELSE Yield(q2, "body", PcmBytes(HoldBack(r.rest)))

\* (mutant) the end of the loop body neither rebinds prev_pcm nor drops np_pcm
StreamResumeKeeps(q) ==
    IF q.ypos = "header" THEN StreamLoopHead([q EXCEPT !.i = 0])
    ELSE IF q.ypos = "cross"
    THEN Yield(q, "body", PcmBytes(HoldBack(q.np_pcm_trimmed)))
    ELSE StreamLoopHead([q EXCEPT !.deletes = Append(@, q.i), !.i = @ + 1])

\* the consumer asks for the next item: the generator resumes after the
\* yield it is suspended at and runs to its next suspension
StreamResume(q) ==
    IF q.ypos = "header" THEN StreamLoopHead([q EXCEPT !.i = 0])
    ELSE IF q.ypos = "cross"
    THEN Yield(q, "body", PcmBytes(HoldBack(q.np_pcm_trimmed)))
    ELSE StreamLoopHead(
            [q EXCEPT !.prev_pcm = q.np_pcm, !.np_pcm = None,
                      !.deletes = Append(@, q.i), !.i = @ + 1])

\* (mutant) a close at a yield is swallowed and the generator runs on
StreamCloseIgnored(q) ==
    IF q.pc = "at_yield" THEN StreamResume(q)
    ELSE StreamFinally([q EXCEPT !.pc = "closed", !.ypos = "none"])

\* GeneratorExit at a yield or CancelledError at the await: neither is an
\* Exception, so only the finally clause runs
StreamClose(q) ==
    StreamFinally([q EXCEPT !.pc = "closed", !.ypos = "none"])

(* ----------------------- generate_speech_internal ---------------------- *)

\* the tensor identities passed to safe_delete_tensors: a chunk's tensor is
\* named by its index, the tensor concatenate_audio_chunks builds by -1
CatTensor == 0 - 1

RECURSIVE FlattenChunks(_, _)
FlattenChunks(chunks, k) ==
    IF k > Len(chunks) THEN <<>> ELSE ToBytes(chunks[k]) \o FlattenChunks(chunks, k + 1)

\* concatenate_audio_chunks(audio_chunks, model.sr): the chunks' samples, in order
concatenate_audio_chunks(chunks) == FlattenChunks(chunks, 1)

\* the finally clause of generate_speech_internal
InternalFinally(q) ==
    LET ids   == [k \in 1..Len(q.audio_chunks) |-> k - 1]
        final == IF q.final_audio = "None" THEN <<>>
                 ELSE IF q.final_audio = "chunk0" THEN <<0, 0>>
                 ELSE <<CatTensor, CatTensor>>
    IN  [q EXCEPT !.deletes = @ \o ids \o final, !.audio_chunks = <<>>, !.fin = TRUE]

\* (mutant) on a failure the audio made so far is handed back
InternalExceptReturnsPartial(q) ==
    InternalFinally([UpdError(q, "TTS generation failed")
                        EXCEPT !.pc = "raised", !.hasBuffer = TRUE,
                               !.buffer = concatenate_audio_chunks(q.audio_chunks)])

\* "except Exception" of generate_speech_internal, then its finally clause
InternalExcept(q) ==
    InternalFinally([UpdError(q, "TTS generation failed") EXCEPT !.pc = "raised"])

\* (mutant) the FINALIZING update is made before the concatenation
InternalFinishFinalizesFirst(q) ==
    IF Len(q.audio_chunks) = 0
    THEN InternalExcept(q)
    ELSE LET q0 == Upd(q, "FINALIZING", -1, -1)
             q1 == IF Len(q.audio_chunks) > 1
                   THEN [Upd(q0, "CONCATENATING", -1, -1) EXCEPT !.final_audio = "cat"]
                   ELSE [q0 EXCEPT !.final_audio = "chunk0"]
             q2 == Upd(q1, "COMPLETED", -1, -1)
         IN  InternalFinally(
                 [q2 EXCEPT !.buffer = concatenate_audio_chunks(q.audio_chunks),
                            !.hasBuffer = TRUE, !.pc = "done"])

\* what follows the loop: concatenate, encode, mark completed, return buffer.
\* audio_chunks[0] raises IndexError on an empty list; q.finishFails says
\* whether concatenate_audio_chunks or ta.save raises for this request
InternalFinish(q) ==
    IF Len(q.audio_chunks) = 0
    THEN InternalExcept(q)
    ELSE IF Len(q.audio_chunks) > 1 /\ q.finishFails = "concat"
    THEN InternalExcept(Upd(q, "CONCATENATING", -1, -1))
    ELSE LET q1 == IF Len(q.audio_chunks) > 1
                   THEN [Upd(q, "CONCATENATING", -1, -1) EXCEPT !.final_audio = "cat"]
                   ELSE [q EXCEPT !.final_audio = "chunk0"]
             q2 == Upd(Upd(q1, "FINALIZING", -1, -1), "COMPLETED", -1, -1)
         IN  IF q.finishFails = "save"
             THEN InternalExcept(Upd(q1, "FINALIZING", -1, -1))
             ELSE InternalFinally(
                     [q2 EXCEPT !.buffer = concatenate_audio_chunks(q.audio_chunks),
                                !.hasBuffer = TRUE, !.pc = "done"])

\* the head of the loop over the chunks and what follows the loop
InternalLoopHead(q) ==
    IF q.i < q.nchunks
    THEN SubmitGenerate(Upd(q, "GENERATING_AUDIO", q.i + 1, q.nchunks))
    ELSE InternalFinish(q)

\* generate_speech_internal from its entry to its first await
InternalBegin(q, loaded, n) ==
    LET p == Prelude(q, loaded)
    IN  IF p.pc = "raised" THEN p
        ELSE LET c == [Upd(p, "CHUNKING", -1, -1) EXCEPT !.split = TRUE, !.nchunks = n]
             IN  InternalLoopHead(Upd(c, "GENERATING_AUDIO", 0, n))

\* the coroutine resumes with the engine's tensor and runs to its next await
InternalAfterGenerate(q, audio_tensor) ==
    InternalLoopHead([q EXCEPT !.audio_chunks = Append(@, audio_tensor), !.i = @ + 1])

(* ------------------------------- actions ------------------------------- *)

Idle == NewRequest("none", 0, 0)

CfIdle == [prev |-> None, next |-> None, done |-> TRUE,
           res |-> [exc |-> FALSE, cross |-> None, rest |-> None]]

\* no example client is running
ClientIdle == [pc |-> "none", body |-> <<>>, taken |-> 0, wav_header |-> <<>>,
               remainder |-> <<>>, dtype |-> "none", channels |-> 0, played |-> <<>>]

TextLens == 0..(MAX_TOTAL_LENGTH + 1)

\* whether, and where, the steps after the loop of generate_speech_internal
\* raise for a request
FinishFailures == {"none", "concat", "save"}

\* one request, streaming or not, of any text length
Init ==
    /\ \E mode \in {"stream", "internal"}, len \in TextLens, w \in 0..MaxWave,
          ff \in FinishFailures :
          /\ mode = "stream" => ff = "none"
          /\ req = [r \in Reqs |-> IF r = 1
                                   THEN [NewRequest(mode, len, w) EXCEPT !.finishFails = ff]
                                   ELSE Idle]
    /\ REQUEST_COUNTER = 0
    /\ cleanups = 0
    /\ cf = CfIdle
    /\ client = ClientIdle

\* the finally clauses' "if REQUEST_COUNTER % Config.MEMORY_CLEANUP_INTERVAL == 0:
\* cleanup_memory()", run when the step from q to q2 went through finally
CleanupAfter(q, q2, counter) ==
    IF q2.fin /\ ~q.fin /\ counter % MEMORY_CLEANUP_INTERVAL = 0
    THEN cleanups + 1 ELSE cleanups

\* the finally clauses of text_to_speech_with_upload and of
\* streaming_with_cleanup: once the inner coroutine or generator has ended,
\* by return, exception, close or cancellation, the temporary voice file of
\* the request is unlinked if there is one
UploadCleanup(q) ==
    IF q.temp_voice = "present" /\ q.pc \in {"done", "raised", "closed"}
    THEN [q EXCEPT !.temp_voice = "unlinked"]
    ELSE q

\* the coroutine of request r runs from its entry to its first suspension;
\* the splitters live outside this file, so any chunk count 0..MaxSegs is
\* admitted for any text that passes the length check
Begin(r) ==
    /\ req[r].pc = "new"
    /\ req[r].mode # "none"
    /\ \E loaded \in BOOLEAN, n \in 0..MaxSegs, enc \in TorchDefaultEncodings :
          LET q2 == IF req[r].mode = "stream"
                    THEN StreamBegin(req[r], loaded, n, enc)
                    ELSE InternalBegin(req[r], loaded, n)
          IN  /\ req' = [req EXCEPT ![r] = UploadCleanup(q2)]
              /\ REQUEST_COUNTER' = REQUEST_COUNTER + 1
              /\ cleanups' = CleanupAfter(req[r], q2, REQUEST_COUNTER + 1)
    /\ UNCHANGED <<cf, client>>

\* model.generate returns in the executor and the awaiting coroutine goes on;
\* the engine is free in the buffer's length and in its layout
EngineReturns(r) ==
    /\ req[r].pc = "await_gen"
    /\ \E T \in 0..MaxLen, layout \in Layouts :
          LET q1 == [req[r] EXCEPT !.running = @ - 1, !.returned = Append(@, T),
                                   !.chans = Append(@, 1)]
              t  == EngineBuffer(Chunk(req[r]), T, req[r].wave, layout)
              q2 == IF req[r].mode = "stream"
                    THEN StreamAfterGenerate(q1, t)
                    ELSE InternalAfterGenerate(q1, t)
          IN  /\ req' = [req EXCEPT ![r] = UploadCleanup(q2)]
              /\ cleanups' = CleanupAfter(req[r], q2, REQUEST_COUNTER)
    /\ UNCHANGED <<REQUEST_COUNTER, cf, client>>

\* model.generate raises in the executor and the awaiting coroutine handles it
EngineRaises(r) ==
    /\ req[r].pc = "await_gen"
    /\ LET q1 == [req[r] EXCEPT !.running = @ - 1, !.raisedAt = req[r].i]
           q2 == IF req[r].mode = "stream" THEN StreamExcept(q1) ELSE InternalExcept(q1)
       IN  /\ req' = [req EXCEPT ![r] = UploadCleanup(q2)]
           /\ cleanups' = CleanupAfter(req[r], q2, REQUEST_COUNTER)
    /\ UNCHANGED <<REQUEST_COUNTER, cf, client>>

\* (mutant) the consumer asks for the next item before the transport has
\* accepted the one it holds
ConsumePrefetch(r) ==
    /\ req[r].mode = "stream"
    /\ req[r].pc = "at_yield"
    /\ LET q2 == StreamResume(req[r])
       IN  /\ req' = [req EXCEPT ![r] = UploadCleanup(q2)]
           /\ cleanups' = CleanupAfter(req[r], q2, REQUEST_COUNTER)
    /\ UNCHANGED <<REQUEST_COUNTER, cf, client>>

\* the consumer of the generator ("async for chunk in ...: yield chunk" of
\* streaming_with_cleanup under StreamingResponse): the item yielded has been
\* accepted by the transport when the consumer asks for the next one
Consume(r) ==
    /\ req[r].mode = "stream"
    /\ req[r].pc = "at_yield"
    /\ LET q2 == StreamResume([req[r] EXCEPT !.accepted = Len(req[r].out)])
       IN  /\ req' = [req EXCEPT ![r] = UploadCleanup(q2)]
           /\ cleanups' = CleanupAfter(req[r], q2, REQUEST_COUNTER)
    /\ UNCHANGED <<REQUEST_COUNTER, cf, client>>

\* the consumer goes away: the generator is closed where it is suspended
Disconnect(r) ==
    /\ req[r].mode = "stream"
    /\ req[r].pc \in {"at_yield", "await_gen"}
    /\ LET q2 == [StreamClose(req[r]) EXCEPT !.gone = TRUE]
       IN  /\ req' = [req EXCEPT ![r] = UploadCleanup(q2)]
           /\ cleanups' = CleanupAfter(req[r], q2, REQUEST_COUNTER)
    /\ UNCHANGED <<REQUEST_COUNTER, cf, client>>

\* a model.generate call whose coroutine was cancelled ends in the executor
AbandonedCallEnds(r) ==
    /\ req[r].pc = "closed"
    /\ req[r].running > 0
    /\ req' = [req EXCEPT ![r].running = @ - 1]
    /\ UNCHANGED <<REQUEST_COUNTER, cleanups, cf, client>>

Next ==
    \E r \in Reqs :
        \/ Begin(r)
        \/ EngineReturns(r)
        \/ EngineRaises(r)
        \/ Consume(r)
        \/ Disconnect(r)
        \/ AbandonedCallEnds(r)

Spec == Init /\ [][Next]_vars

\* one request to an upload endpoint, its voice file written to a temporary
\* file before the request is handed to the generator
InitUpload ==
    /\ \E mode \in {"stream", "internal"}, len \in TextLens, w \in 0..MaxWave,
          ff \in FinishFailures :
          /\ mode = "stream" => ff = "none"
          /\ req = [r \in Reqs |-> IF r = 1
                                   THEN [NewRequest(mode, len, w)
                                            EXCEPT !.finishFails = ff, !.temp_voice = "present"]
                                   ELSE Idle]
    /\ REQUEST_COUNTER = 0
    /\ cleanups = 0
    /\ cf = CfIdle
    /\ client = ClientIdle

SpecUpload == InitUpload /\ [][Next]_vars

\* the event loop keeps running what can run: a started call ends, a
\* consumer takes the item offered or goes away
SpecFair == Init /\ [][Next]_vars /\ WF_vars(Next)

(* ------------------- crossfade_pcm applied on its own ------------------ *)

\* an array of shape (rows, T) of waveform w, tagged as chunk i
PcmArray(i, rows, T, w) ==
    Array(rows, T, [r \in 1..rows |-> [j \in 1..T |-> EngineSample(i, j - 1, w + r - 1)]])

CfArrays(i) == {PcmArray(i, rows, T, w) : rows \in {1, 2}, T \in 0..MaxLen + 1, w \in 0..MaxWave}

InitCF ==
    /\ req = [r \in Reqs |-> Idle]
    /\ REQUEST_COUNTER = 0
    /\ cleanups = 0
    /\ client = ClientIdle
    /\ \E p \in CfArrays(0) \cup {None}, n \in CfArrays(1) :
          cf = [prev |-> p, next |-> n, done |-> FALSE,
                res |-> [exc |-> FALSE, cross |-> None, rest |-> None]]

ApplyCrossfade ==
    /\ ~cf.done
    /\ cf' = [cf EXCEPT !.res = crossfade_pcm(cf.prev, cf.next, fade_samples),
                        !.done = TRUE]
    /\ UNCHANGED <<req, REQUEST_COUNTER, cleanups, client>>

NextCF == ApplyCrossfade

SpecCF == InitCF /\ [][NextCF]_vars

(* ------------------------ reading a request's log ---------------------- *)

Streams == {r \in Reqs : req[r].mode = "stream"}

\* the positions in out of the PCM runs (everything but the header)
PcmRuns(q) == {k \in 1..Len(q.out) : q.out[k].role # "header"}

\* the chunk indexes the samples of one run were made from
RunChunks(item) == {t[1] : t \in UNION {item.samples[k].src : k \in 1..Len(item.samples)}}

RECURSIVE PcmFrom(_, _)
PcmFrom(out, k) ==
    IF k > Len(out) THEN <<>> ELSE out[k].samples \o PcmFrom(out, k + 1)

\* all samples yielded after the header, in the order yielded
PcmOut(q) == PcmFrom(q.out, 1)

\* the tags of all samples yielded
OutTags(q) == UNION {PcmOut(q)[k].src : k \in 1..Len(PcmOut(q))}

OutTagChunks(q) == {t[1] : t \in OutTags(q)}

LastStatus(q) == q.statusLog[Len(q.statusLog)].status

\* the request was rejected by a check made before the try block
Rejected(q) == q.pc = "raised" /\ ~q.split

(* -------------------------------- C1 ----------------------------------- *)

\* C1: PCM runs are yielded in chunk order: a run holding samples of chunk i
\* comes before every run holding only samples of a later chunk j; the runs'
\* loop indexes never decrease, and at one index the blended run comes before
\* the body; a first or body run holds only its own chunk's samples, in
\* sample order, and a blended run only those of its chunk and the one before.
C1_RunsInChunkOrder ==
    \A r \in Streams :
        LET q == req[r]
        IN  /\ \A a \in PcmRuns(q), b \in PcmRuns(q) :
                  /\ (\E i \in RunChunks(q.out[a]) :
                          /\ RunChunks(q.out[b]) # {}
                          /\ \A j \in RunChunks(q.out[b]) : i < j) => a < b
                  /\ a < b =>
                        \/ q.out[a].i < q.out[b].i
                        \/ /\ q.out[a].i = q.out[b].i
                           /\ q.out[a].role = "cross"
                           /\ q.out[b].role = "body"
            /\ \A a \in PcmRuns(q) :
                  LET item == q.out[a]
                  IN  /\ item.role \in {"first", "body"} => RunChunks(item) \subseteq {item.i}
                      /\ item.role = "first" <=> item.i = 0
                      /\ item.role = "cross" => RunChunks(item) \subseteq {item.i - 1, item.i}
                      /\ \A k \in 1..Len(item.samples), l \in 1..Len(item.samples) :
                            k < l => \A t \in item.samples[k].src, u \in item.samples[l].src :
                                        t[1] = u[1] => t[2] < u[2]

\* three chunks' non-empty runs were yielded and the stream ended
C1_Witness ==
    \E r \in Streams :
        /\ req[r].pc = "done"
        /\ {0, 1, 2} \subseteq OutTagChunks(req[r])

(* -------------------------------- C2 ----------------------------------- *)

\* C2: model.generate is called for chunks 0, 1, 2, ... in that order, once
\* each; at most one call of a request is in flight at any time; a request
\* that completes has made exactly one call per chunk.
C2_OneCallPerChunkInOrder ==
    \A r \in Reqs :
        LET q == req[r]
        IN  /\ \A k \in 1..Len(q.calls) : q.calls[k] = k - 1
            /\ q.running <= 1
            /\ q.maxRunning <= 1
            /\ Len(q.calls) <= q.nchunks
            /\ q.running = 1 /\ q.pc # "closed" =>
                  q.pc = "await_gen" /\ Len(q.returned) = Len(q.calls) - 1
            /\ q.pc = "done" => Len(q.calls) = q.nchunks /\ Len(q.returned) = q.nchunks

\* a request of three chunks completed
C2_Witness ==
    \E r \in Reqs : req[r].pc = "done" /\ Len(req[r].calls) >= 3

(* -------------------------------- C3 ----------------------------------- *)

\* C3: a request whose text is longer than MAX_TOTAL_LENGTH is rejected:
\* no model.generate call, no splitting, nothing yielded (neither header nor
\* PCM), no buffer returned, and its status is ERROR.
C3_TooLongRejected ==
    \A r \in Reqs :
        LET q == req[r]
        IN  q.text_len > MAX_TOTAL_LENGTH /\ q.pc # "new" =>
                /\ q.pc = "raised"
                /\ q.calls = <<>>
                /\ ~q.split
                /\ q.out = <<>>
                /\ ~q.hasBuffer
                /\ LastStatus(q) = "ERROR"

\* an over-long streaming request was rejected although the model is loaded
C3_Witness ==
    \E r \in Streams :
        /\ req[r].text_len > MAX_TOTAL_LENGTH
        /\ req[r].pc = "raised"
        /\ Len(req[r].statusLog) > 2

(* -------------------------------- C4 ----------------------------------- *)

\* the length the engine returned for chunk i
Returned(q, i) == q.returned[i + 1]

\* C4: when model.generate raises on chunk k > 0 of a streaming request, the
\* request ends raised with status ERROR; the runs yielded for the chunks
\* before k are all in the output; no sample of chunk k or of a later chunk
\* is; and the calls made are those for chunks 0..k and no other.
C4_EngineFailureIsFatal ==
    \A r \in Streams :
        LET q == req[r]
            k == q.raisedAt
        IN  k >= 1 =>
                /\ q.pc = "raised"
                /\ LastStatus(q) = "ERROR"
                /\ q.running = 0
                /\ q.calls = [c \in 1..(k + 1) |-> c - 1]
                /\ \A t \in OutTags(q) : t[1] < k
                /\ \A j \in 0..(k - 1) :
                      /\ \E a \in PcmRuns(q) :
                            q.out[a].i = j /\ q.out[a].role \in {"first", "body"}
                      /\ Returned(q, j) > 0 => j \in OutTagChunks(q)

\* the engine failed on the second of three chunks after the first was yielded
C4_Witness ==
    \E r \in Streams :
        /\ req[r].raisedAt = 1
        /\ req[r].nchunks = 3
        /\ 0 \in OutTagChunks(req[r])

(* -------------------------------- C5 ----------------------------------- *)

\* C5: once the consumer is gone the generator is closed, holds no buffer
\* (prev_pcm and the other array locals are released), has made no call
\* beyond the one for the chunk in progress, and from then on no call is
\* issued and nothing more is yielded.
C5_DisconnectStops ==
    /\ [](\A r \in Streams :
            LET q == req[r]
            IN  q.gone =>
                  /\ q.pc = "closed"
                  /\ q.prev_pcm = None /\ q.np_pcm = None
                  /\ q.cross = None /\ q.np_pcm_trimmed = None
                  /\ Len(q.calls) <= Len(q.returned) + 1)
    /\ [][\A r \in Streams :
            req[r].gone =>
                /\ req'[r].gone
                /\ req'[r].calls = req[r].calls
                /\ req'[r].out = req[r].out]_vars

\* the consumer left after the first chunk's run was yielded, before any
\* call for the second chunk
C5_Witness ==
    \E r \in Streams :
        /\ req[r].gone
        /\ req[r].nchunks >= 2
        /\ req[r].calls = <<0>>
        /\ 0 \in OutTagChunks(req[r])

(* -------------------------------- C6 ----------------------------------- *)

C8_BlendAtEveryLongBoundary ==
    \A r \in Streams :
        LET q == req[r]
        IN  \A a \in PcmRuns(q) :
                LET k == q.out[a].i
                IN  (/\ q.out[a].role = "body"
                     /\ Returned(q, k - 1) >= fade_samples
                     /\ Returned(q, k) >= fade_samples) =>
                        \E b \in PcmRuns(q) :
                            /\ b < a
                            /\ q.out[b].role = "cross"
                            /\ q.out[b].i = k
                            /\ Len(q.out[b].samples) = fade_samples
                            /\ RunChunks(q.out[b]) = {k - 1, k}

(* -------------------------------- C9 ----------------------------------- *)

\* C9: when crossfade_pcm blends, the blended region has fade_samples = N
\* columns and, in every row and for every t in 0..N-1,
\*     N * blended[t] = prev[len(prev) - N + t] * (N - t) + next[t] * t ;
\* blended[0] is the previous buffer's sample; the weights at t are
\* (N - t) / N and t / N, which sum to 1, and the weight of the next buffer
\* increases strictly with t.
C9_LinearBlend ==
    LET N == fade_samples
        b == cf.res.cross
    IN  (cf.done /\ b # None) =>
            /\ cf.prev # None /\ cf.prev.n1 >= N /\ cf.next.n1 >= N
            /\ b.n1 = N
            /\ b.n0 = BroadcastRows(cf.prev.n0, cf.next.n0)
            /\ \A r \in 1..b.n0, t \in 0..(N - 1) :
                  LET x == b.rows[r][t + 1]
                      p == BroadcastRow(cf.prev, r)[cf.prev.n1 - N + t + 1]
                      n == BroadcastRow(cf.next, r)[t + 1]
                  IN  /\ N * x.num * p.den * n.den
                            = x.den * (p.num * (N - t) * n.den + n.num * t * p.den)
                      /\ x.src = p.src \cup n.src
                      /\ t = 0 => SameValue(x, p)
            /\ \A t \in 0..(N - 1) :
                  /\ Linspace(1, 0, N, t) = <<N - t, N>>
                  /\ Linspace(0, 1, N, t) = <<t, N>>
                  /\ t > 0 => Linspace(0, 1, N, t)[1] * Linspace(0, 1, N, t - 1)[2]
                                > Linspace(0, 1, N, t - 1)[1] * Linspace(0, 1, N, t)[2]

\* two two-row buffers, the previous one longer than N, were blended, and
\* some blended sample lies strictly between unequal operands' values
C9_Witness ==
    /\ cf.done
    /\ cf.res.cross # None
    /\ cf.prev.n0 = 2 /\ cf.next.n0 = 2
    /\ cf.prev.n1 > fade_samples
    /\ \E r \in 1..2, t \in 1..(fade_samples - 1) :
          cf.prev.rows[r][cf.prev.n1 - fade_samples + t + 1].num # cf.next.rows[r][t + 1].num

(* -------------------------------- C10 ---------------------------------- *)

\* C10: at a boundary where the previous or the next buffer has fewer than
\* fade_samples samples, crossfade_pcm gave no blended region and gave the
\* next buffer back unchanged, and no blended run was yielded at that
\* boundary; at such a boundary no array operation of the pipeline raises,
\* so the request ends raised only when the engine raised, and a request
\* that ran to its end is COMPLETED.
C10_ShortBoundaryPassesThrough ==
    \A r \in Streams :
        LET q == req[r]
        IN  /\ (/\ Len(q.returned) >= 2
                /\ \/ q.returned[Len(q.returned) - 1] < fade_samples
                   \/ q.returned[Len(q.returned)] < fade_samples) =>
                    /\ ~q.npError
                    /\ q.pc = "raised" => q.raisedAt >= 0
            /\ q.pc = "raised" => LastStatus(q) = "ERROR"
            /\ q.pc = "done" => LastStatus(q) = "COMPLETED"
            /\ (/\ q.pc = "at_yield"
                /\ q.i >= 1
                /\ \/ Returned(q, q.i - 1) < fade_samples
                   \/ Returned(q, q.i) < fade_samples) =>
                    /\ q.ypos = "body"
                    /\ q.cross = None
                    /\ q.np_pcm_trimmed = q.np_pcm
                    /\ ToBytes(q.np_pcm) = [j \in 1..Returned(q, q.i) |->
                                               EngineSample(q.i, j - 1, q.wave)]
                    /\ \A a \in PcmRuns(q) : q.out[a].role # "cross" \/ q.out[a].i # q.i

\* a request completed whose second buffer is shorter than fade_samples and
\* follows one that is not
C10_Witness ==
    \E r \in Streams :
        /\ req[r].pc = "done"
        /\ LastStatus(req[r]) = "COMPLETED"
        /\ req[r].nchunks >= 2
        /\ Returned(req[r], 0) >= fade_samples
        /\ Returned(req[r], 1) < fade_samples
        /\ Returned(req[r], 1) > 0

(* -------------- an engine whose buffers differ in channel count --------- *)

\* the channel counts the engine of this specification may return
ChannelCounts == 1..Max2(2, fade_samples)

InitFmt ==
    /\ \E len \in TextLens, w \in 0..MaxWave :
          req = [r \in Reqs |-> IF r = 1 THEN NewRequest("stream", len, w) ELSE Idle]
    /\ REQUEST_COUNTER = 0
    /\ cleanups = 0
    /\ cf = CfIdle
    /\ client = ClientIdle

\* model.generate returns a [channels, samples] buffer of either channel count
EngineReturnsFmt(r) ==
    /\ req[r].pc = "await_gen"
    /\ \E T \in 1..MaxLen, nch \in ChannelCounts :
          LET q1 == [req[r] EXCEPT !.running = @ - 1, !.returned = Append(@, T),
                                   !.chans = Append(@, nch)]
              t  == PcmArray(Chunk(req[r]), nch, T, req[r].wave)
              q2 == StreamAfterGenerate(q1, t)
          IN  /\ req' = [req EXCEPT ![r] = UploadCleanup(q2)]
              /\ cleanups' = CleanupAfter(req[r], q2, REQUEST_COUNTER)
    /\ UNCHANGED <<REQUEST_COUNTER, cf, client>>

NextFmt ==
    \E r \in Reqs :
        \/ Begin(r)
        \/ EngineReturnsFmt(r)
        \/ EngineRaises(r)
        \/ Consume(r)
        \/ Disconnect(r)
        \/ AbandonedCallEnds(r)

SpecFmt == InitFmt /\ [][NextFmt]_vars

(* --------------------- two streaming requests at once ------------------- *)

\* the chunk counts and buffer lengths of this specification
MultiSegs == 2
MultiLen == 2

\* two streaming requests of different waveforms, both accepted
InitMulti ==
    /\ req = [r \in Reqs |-> NewRequest("stream", 1, r - 1)]
    /\ REQUEST_COUNTER = 0
    /\ cleanups = 0
    /\ cf = CfIdle
    /\ client = ClientIdle

\* (mutant) model.generate is called on the thread of the event loop: no
\* coroutine starts while a call is running
BeginMultiBlocked(r) ==
    /\ req[r].pc = "new"
    /\ \A o \in Reqs : req[o].running = 0
    /\ \E n \in 1..MultiSegs, enc \in TorchDefaultEncodings :
          LET q2 == StreamBegin(req[r], TRUE, n, enc)
          IN  /\ req' = [req EXCEPT ![r] = UploadCleanup(q2)]
              /\ REQUEST_COUNTER' = REQUEST_COUNTER + 1
              /\ cleanups' = CleanupAfter(req[r], q2, REQUEST_COUNTER + 1)
    /\ UNCHANGED <<cf, client>>

\* the coroutine of request r runs from its entry to the yield of the header
BeginMulti(r) ==
    /\ req[r].pc = "new"
    /\ \E n \in 1..MultiSegs, enc \in TorchDefaultEncodings :
          LET q2 == StreamBegin(req[r], TRUE, n, enc)
          IN  /\ req' = [req EXCEPT ![r] = UploadCleanup(q2)]
              /\ REQUEST_COUNTER' = REQUEST_COUNTER + 1
              /\ cleanups' = CleanupAfter(req[r], q2, REQUEST_COUNTER + 1)
    /\ UNCHANGED <<cf, client>>

\* (mutant) the tensor is kept in a place all requests share: a coroutine
\* that resumes while another request's call is pending gets that request's
EngineReturnsShared(r) ==
    /\ req[r].pc = "await_gen"
    /\ \E T \in 1..MultiLen :
          LET o  == CHOOSE x \in Reqs : x # r
              w  == IF req[o].pc = "await_gen" THEN req[o].wave ELSE req[r].wave
              q1 == [req[r] EXCEPT !.running = @ - 1, !.returned = Append(@, T),
                                   !.chans = Append(@, 1)]
              t  == EngineBuffer(Chunk(req[r]), T, w, "channels_first")
              q2 == StreamAfterGenerate(q1, t)
          IN  /\ req' = [req EXCEPT ![r] = UploadCleanup(q2)]
              /\ cleanups' = CleanupAfter(req[r], q2, REQUEST_COUNTER)
    /\ UNCHANGED <<REQUEST_COUNTER, cf, client>>

\* model.generate returns a [1, T] buffer to the coroutine that awaits it
EngineReturnsMulti(r) ==
    /\ req[r].pc = "await_gen"
    /\ \E T \in 1..MultiLen :
          LET q1 == [req[r] EXCEPT !.running = @ - 1, !.returned = Append(@, T),
                                   !.chans = Append(@, 1)]
              t  == EngineBuffer(Chunk(req[r]), T, req[r].wave, "channels_first")
              q2 == StreamAfterGenerate(q1, t)
          IN  /\ req' = [req EXCEPT ![r] = UploadCleanup(q2)]
              /\ cleanups' = CleanupAfter(req[r], q2, REQUEST_COUNTER)
    /\ UNCHANGED <<REQUEST_COUNTER, cf, client>>

NextMulti ==
    \E r \in Reqs :
        \/ BeginMulti(r)
        \/ EngineReturnsMulti(r)
        \/ Consume(r)
        \/ Disconnect(r)
        \/ AbandonedCallEnds(r)

SpecMulti == InitMulti /\ [][NextMulti]_vars

(* ------------------- the example clients' header parsing ---------------- *)

\* int.from_bytes(header_bytes[a:b], "little")
RECURSIVE FromLE(_, _, _)
FromLE(bytes, a, b) ==
    IF a >= b THEN 0 ELSE bytes[a + 1] + 256 * FromLE(bytes, a + 1, b)

\* parse_wav_header of the example clients
parse_wav_header(header_bytes) ==
    [channels |-> FromLE(header_bytes, 22, 24),
     sample_rate |-> FromLE(header_bytes, 24, 28),
     bits_per_sample |-> FromLE(header_bytes, 34, 36),
     audio_format |-> FromLE(header_bytes, 20, 22)]

\* the sample type the clients play the stream as
ClientDtype(h) ==
    IF h.audio_format = 1 /\ h.bits_per_sample = 16 THEN "int16"
    ELSE IF h.audio_format = 3 /\ h.bits_per_sample = 32 THEN "float32"
    ELSE "unsupported"

(* ------------------- the example clients' read loop -------------------- *)

\* the most float32 samples a response body carries after its header
MaxPcmItems == 3

\* iter_content(chunk_size=4096): no chunk the iterator hands over is longer
chunk_size == 4096

\* the bytes of a response body, each with its place in the stream: the
\* header generate_speech_streaming yields first, then the float32 samples
StreamBody(enc, items) ==
    LET bytes == wav_header(enc) \o [k \in 1..(4 * items) |-> k % 256]
    IN  [k \in 1..Len(bytes) |-> [at |-> k, byte |-> bytes[k]]]

\* the values of a run of stream bytes
Values(bs) == [k \in 1..Len(bs) |-> bs[k].byte]

\* np.dtype(dtype).itemsize
ItemSize(dtype) == IF dtype = "int16" THEN 2 ELSE 4

\* np.frombuffer(data, dtype) and reshape(-1, channels) raise ValueError
\* unless the bytes make whole items and the items make whole frames
FrombufferRaises(data, dtype, nch) ==
    \/ Len(data) % ItemSize(dtype) # 0
    \/ nch > 1 /\ (Len(data) \div ItemSize(dtype)) % nch # 0

\* one pass of audio_gen and of the loop that writes what it yields: empty
\* data is skipped, data that cannot be converted ends the client with
\* ValueError, other data is written to the output stream
PlayData(c, data) ==
    IF data = <<>> THEN c
    ELSE IF FrombufferRaises(data, c.dtype, c.channels) THEN [c EXCEPT !.pc = "failed"]
    ELSE [c EXCEPT !.played = @ \o data]

\* lines 36-44 of the clients and the first pass of audio_gen, once the
\* header is whole
AfterHeader(c) ==
    LET h == parse_wav_header(Values(c.wav_header))
        dtype == ClientDtype(h)
    IN  IF dtype = "unsupported" THEN [c EXCEPT !.pc = "failed"]
        ELSE PlayData([c EXCEPT !.pc = "playing", !.dtype = dtype, !.channels = h.channels],
                      c.remainder)

\* the body of "while len(wav_header) < 44" for one chunk, and what follows
\* the loop when the header is whole
HeaderChunk(c, chunk) ==
    LET needed == 44 - Len(c.wav_header)
        c1 == [c EXCEPT !.wav_header = @ \o SubSeq(chunk, 1, Min2(needed, Len(chunk))),
                        !.remainder = IF needed < Len(chunk)
                                      THEN SubSeq(chunk, needed + 1, Len(chunk))
                                      ELSE <<>>]
    IN  IF Len(c1.wav_header) < 44 THEN c1 ELSE AfterHeader(c1)

\* a client has posted its request and holds the iterator over a response
\* body the transport will hand over in chunks of its own choosing; a
\* response may also carry no body at all
InitClient ==
    /\ req = [r \in Reqs |-> Idle]
    /\ REQUEST_COUNTER = 0
    /\ cleanups = 0
    /\ cf = CfIdle
    /\ \E enc \in TorchDefaultEncodings, items \in 0..MaxPcmItems, empty \in BOOLEAN :
          client = [ClientIdle EXCEPT !.pc = "header",
                                      !.body = IF empty THEN <<>> ELSE StreamBody(enc, items)]

\* next(it) while the header is being assembled: StopIteration becomes
\* RuntimeError, a chunk goes through the loop body
ClientReadsHeader ==
    /\ client.pc = "header"
    /\ IF client.taken = Len(client.body)
       THEN client' = [client EXCEPT !.pc = "failed"]
       ELSE \E n \in 1..Min2(chunk_size, Len(client.body) - client.taken) :
               client' = HeaderChunk([client EXCEPT !.taken = @ + n],
                                     SubSeq(client.body, client.taken + 1, client.taken + n))
    /\ UNCHANGED <<req, REQUEST_COUNTER, cleanups, cf>>

\* "for chunk in it" of audio_gen: the end of the body ends the playback,
\* a chunk is converted and written
ClientPlays ==
    /\ client.pc = "playing"
    /\ IF client.taken = Len(client.body)
       THEN client' = [client EXCEPT !.pc = "done"]
       ELSE \E n \in 1..Min2(chunk_size, Len(client.body) - client.taken) :
               client' = PlayData([client EXCEPT !.taken = @ + n],
                                  SubSeq(client.body, client.taken + 1, client.taken + n))
    /\ UNCHANGED <<req, REQUEST_COUNTER, cleanups, cf>>

NextClient == ClientReadsHeader \/ ClientPlays

SpecClient == InitClient /\ [][NextClient]_vars

(* -------------------------------- C11 ---------------------------------- *)

\* C11: the first item a streaming request yields is the WAV header, 44 bytes
\* long; no later item is a header, so it comes once and before every PCM
\* run; a request rejected for its text length or for a missing model
\* yields nothing at all
C11_HeaderFirstOnce44 ==
    \A r \in Streams :
        LET q == req[r]
        IN  /\ q.out # <<>> => /\ q.out[1].role = "header"
                               /\ Len(q.out[1].bytes) = 44
            /\ \A k \in 2..Len(q.out) : q.out[k].role # "header"
            /\ Rejected(q) => q.out = <<>>

\* a streaming request that has yielded its header and two PCM runs
C11_Witness ==
    \E r \in Streams : Len(req[r].out) >= 3 /\ Len(req[r].out[1].bytes) = 44

(* -------------------------------- C12 ---------------------------------- *)

\* C12: the header a streaming request yielded, read at the clients' offsets,
\* says 1 channel, the engine's sample rate, 32 bits and format tag 3, and
\* the sample type the clients derive from it is the one every PCM run of
\* the request is encoded in.
C12_HeaderMatchesPcm ==
    \A r \in Streams :
        LET q == req[r]
        IN  q.out # <<>> =>
                LET h == parse_wav_header(q.out[1].bytes)
                IN  /\ h.channels = channels
                    /\ h.sample_rate = sample_rate
                    /\ h.bits_per_sample = bits_per_sample
                    /\ h.audio_format = 3
                    /\ \A k \in PcmRuns(q) : q.out[k].dtype = ClientDtype(h)

(* -------------------------------- C13 ---------------------------------- *)

ChunksIn(q, n) == {q.out[k].i : k \in {k \in PcmRuns(q) : k <= n}}

\* C14: while a synthesis call of a streaming request is running, every item
\* the request has yielded has been accepted by the transport; at most one
\* item is ever waiting unaccepted, no call runs while it waits, and at most
\* one synthesized segment is beyond the segments already accepted.
C14_NoSynthesisAhead ==
    \A r \in Streams :
        LET q == req[r]
        IN  /\ q.pc = "await_gen" => q.accepted = Len(q.out)
            /\ Len(q.out) - q.accepted <= 1
            /\ q.accepted < Len(q.out) => q.running = 0
            /\ Len(q.returned) <= Cardinality(ChunksIn(q, q.accepted)) + 1

\* the run of the second segment waits unaccepted: the first segment's run
\* was accepted, the third segment's call has not been issued
C14_Witness ==
    \E r \in Streams :
        LET q == req[r]
        IN  /\ q.pc = "at_yield" /\ q.i = 1 /\ q.nchunks = 3
            /\ q.accepted = Len(q.out) - 1
            /\ q.calls = <<0, 1>>
            /\ Len(q.out[Len(q.out)].samples) > 0

(* -------------------------------- C15 ---------------------------------- *)

\* C15: once the engine has returned, for a later segment, a buffer whose
\* channel count differs from the first segment's, the request has failed
\* with status ERROR and no PCM run holds a sample of that buffer.
C15_MismatchIsFatal ==
    \A r \in Streams :
        LET q == req[r]
        IN  \A k \in 2..Len(q.chans) :
                q.chans[k] # q.chans[1] =>
                    /\ q.pc = "raised"
                    /\ LastStatus(q) = "ERROR"
                    /\ \A a \in PcmRuns(q) : k - 1 \notin RunChunks(q.out[a])

(* -------------------------------- C16 ---------------------------------- *)

\* the place of a status in the order of the lifecycle
StatusRank(status) ==
    CASE status = "INITIALIZING" -> 1
      [] status = "PROCESSING_TEXT" -> 2
      [] status = "CHUNKING" -> 3
      [] status = "GENERATING_AUDIO" -> 4
      [] status = "CONCATENATING" -> 5
      [] status = "FINALIZING" -> 6
      [] status = "COMPLETED" -> 7
      [] OTHER -> 0

\* C16: in the sequence of statuses a request passed to update_tts_status,
\* a status other than ERROR never comes after a status of higher rank, and
\* nothing comes after COMPLETED or ERROR.
C16_StatusNeverBackward ==
    \A r \in Reqs :
        LET log == req[r].statusLog
        IN  \A k \in 1..Len(log) : \A l \in (k + 1)..Len(log) :
                /\ log[k].status \notin {"COMPLETED", "ERROR"}
                /\ log[l].status # "ERROR" =>
                        StatusRank(log[k].status) <= StatusRank(log[l].status)

\* a request went through every status up to COMPLETED
C16_Witness ==
    \E r \in Reqs :
        LET log == req[r].statusLog
        IN  /\ Len(log) > 0
            /\ {log[k].status : k \in 1..Len(log)} =
                   {"INITIALIZING", "PROCESSING_TEXT", "CHUNKING", "GENERATING_AUDIO",
                    "CONCATENATING", "FINALIZING", "COMPLETED"}

(* -------------------------------- C17 ---------------------------------- *)

\* C17: whenever a request's status was set to COMPLETED, the status set
\* just before it was CONCATENATING or FINALIZING (so never GENERATING_AUDIO).
C17_CompletedAfterFinalizing ==
    \A r \in Reqs :
        LET log == req[r].statusLog
        IN  \A k \in 1..Len(log) :
                log[k].status = "COMPLETED" =>
                    /\ k > 1
                    /\ log[k - 1].status \in {"CONCATENATING", "FINALIZING"}

(* -------------------------------- C18 ---------------------------------- *)

\* the updates of a request that passed the two counters
CounterUpdates(q) == SelectSeq(q.statusLog, LAMBDA u : u.cur # -1)

\* C18: while a synthesis call for the chunk at index i runs, the last
\* status update is GENERATING_AUDIO with current = i + 1 and total = the
\* chunk count; every update that passes counters has 0 <= current <= total;
\* and a request that is COMPLETED has current = total.
C18_ProgressPerSegment ==
    \A r \in Reqs :
        LET q == req[r]
            cu == CounterUpdates(q)
        IN  /\ q.pc = "await_gen" =>
                    /\ LastStatus(q) = "GENERATING_AUDIO"
                    /\ q.statusLog[Len(q.statusLog)].cur = Chunk(q) + 1
                    /\ q.statusLog[Len(q.statusLog)].tot = q.nchunks
            /\ \A k \in 1..Len(cu) : 0 <= cu[k].cur /\ cu[k].cur <= cu[k].tot
            /\ (q.pc = "done" /\ LastStatus(q) = "COMPLETED") =>
                    /\ Len(cu) > 0
                    /\ cu[Len(cu)].cur = cu[Len(cu)].tot

(* -------------------------------- C19 ---------------------------------- *)

\* C19: a request for which get_model() returned None has raised, its last
\* status update is ERROR with the message "Model not loaded", its text was
\* not split, no model.generate call was made for it and it yielded nothing.
C19_ModelNotLoaded ==
    \A r \in Reqs :
        LET q == req[r]
        IN  q.model = "None" =>
                /\ q.pc = "raised"
                /\ LastStatus(q) = "ERROR"
                /\ q.statusLog[Len(q.statusLog)].msg = "Model not loaded"
                /\ ~q.split
                /\ q.calls = <<>>
                /\ q.out = <<>>

\* a streaming request found no model
C19_Witness ==
    \E r \in Streams :
        /\ req[r].model = "None"
        /\ req[r].statusLog[Len(req[r].statusLog)].msg = "Model not loaded"

(* -------------------------------- C20 ---------------------------------- *)

\* the generator is resumed until it awaits the engine or ends
RECURSIVE ToAwait(_)
ToAwait(q) == IF q.pc = "at_yield" THEN ToAwait(StreamResume(q)) ELSE q

\* a request with the parameters of x, run on its own: started, then given
\* the first k buffers the engine returned to x, each when it is awaited
RECURSIVE Alone(_, _)
Alone(x, k) ==
    IF k = 0
    THEN StreamBegin(NewRequest("stream", x.text_len, x.wave), x.model = "model",
                     x.nchunks, x.wav_enc)
    ELSE LET q  == ToAwait(Alone(x, k - 1))
             q1 == [q EXCEPT !.running = @ - 1, !.returned = Append(@, x.returned[k]),
                             !.chans = Append(@, 1)]
         IN  StreamAfterGenerate(q1, EngineBuffer(Chunk(q), x.returned[k], x.wave,
                                                  "channels_first"))

C21_LoopNotBlocked ==
    \A r \in Reqs : \A o \in Reqs \ {r} :
        (req[r].pc = "await_gen" /\ req[r].running > 0) =>
            /\ req[o].pc = "new" => ENABLED BeginMulti(o)
            /\ req[o].pc = "at_yield" => ENABLED Consume(o)
            /\ ENABLED Disconnect(r)

\* the calls of both requests are in flight at once: the one issued second
\* was issued by a coroutine that ran while the other's call was running
C21_Witness ==
    /\ \A r \in Reqs : req[r].pc = "await_gen" /\ req[r].running = 1
    /\ req[1].i = 0 /\ req[2].i = 1

(* -------------------------------- C22 ---------------------------------- *)

\* the requests that have come to their end, in whatever way
Completions == {r \in Reqs : req[r].pc \in {"done", "raised", "closed"}}

\* C22: the number of cleanup_memory calls made so far is the number of
\* completed requests divided by MEMORY_CLEANUP_INTERVAL, rounded down: one
\* call at the K-th, 2K-th, ... completion and none at any other.
C22_CleanupEveryKCompletions ==
    cleanups = Cardinality(Completions) \div MEMORY_CLEANUP_INTERVAL

(* -------------------------------- C23 ---------------------------------- *)

\* the engine samples that went into the items of q.out at the positions ks
SourcesOf(q, ks) ==
    UNION {UNION {q.out[k].samples[j].src : j \in 1..Len(q.out[k].samples)} : k \in ks}

\* the positions in out of the blended runs yielded at the boundary before
\* the chunk at index i
CrossRuns(q, i) == {k \in PcmRuns(q) : q.out[k].role = "cross" /\ q.out[k].i = i}

\* C23: when a blend was yielded at the boundary before the buffer now held
\* as previous buffer, that buffer holds none of the samples that went into
\* the blend; and no engine sample went into the blends of two boundaries.
C23_CarriedBufferIsTrimmed ==
    \A r \in Streams :
        LET q == req[r]
        IN  /\ (q.prev_pcm # None /\ q.pc = "await_gen" /\ CrossRuns(q, q.i - 1) # {}) =>
                    \A c \in 1..q.prev_pcm.n0, j \in 1..q.prev_pcm.n1 :
                        q.prev_pcm.rows[c][j].src \cap SourcesOf(q, CrossRuns(q, q.i - 1)) = {}
            /\ \A i \in 1..q.nchunks, j \in 1..q.nchunks :
                    i # j => SourcesOf(q, CrossRuns(q, i)) \cap SourcesOf(q, CrossRuns(q, j)) = {}

(* -------------------------------- C24 ---------------------------------- *)

\* the chunks that have a sample in the array a
ArrayChunks(a) ==
    {t[1] : t \in UNION {UNION {a.rows[c][j].src : j \in 1..a.n1} : c \in 1..a.n0}}

\* the chunks whose buffer a local of the generator still refers to
\* (np_pcm_trimmed is a view of np_pcm's buffer)
AliveChunks(q) ==
    ArrayChunks(q.prev_pcm) \cup ArrayChunks(q.np_pcm) \cup ArrayChunks(q.np_pcm_trimmed)

\* C24: while the call for the chunk at index i >= 1 is awaited, the runs of
\* chunk i - 1 having been yielded and taken, the only buffer retained is
\* that of chunk i - 1, held as prev_pcm; at every point the buffers of at
\* most two chunks are retained; a generator that has ended retains none.
C24_AtMostTwoBuffers ==
    \A r \in Streams :
        LET q == req[r]
        IN  /\ (q.pc = "await_gen" /\ q.i >= 1) =>
                    /\ AliveChunks(q) = {q.i - 1}
                    /\ ArrayChunks(q.prev_pcm) = {q.i - 1}
                    /\ q.np_pcm = None
            /\ Cardinality(AliveChunks(q)) <= 2
            /\ q.pc \in {"done", "raised", "closed"} => AliveChunks(q) = {}

\* the call for the third chunk is awaited and only the second chunk's
\* buffer is retained
C24_Witness ==
    \E r \in Streams :
        /\ req[r].pc = "await_gen" /\ req[r].i = 2
        /\ AliveChunks(req[r]) = {1}

(* -------------------------------- C25 ---------------------------------- *)

\* C25: the buffer the loop slices and crossfades is laid out as
\* [channels, samples]: axis 0 has the channel count and axis 1 the number
\* of samples the engine returned, whichever layout the buffer arrived in.
C25_ChannelsBySamples ==
    \A r \in Streams :
        LET q == req[r]
        IN  (q.pc = "at_yield" /\ q.np_pcm # None) =>
                /\ q.np_pcm.n0 = channels
                /\ q.np_pcm.n1 = Returned(q, q.i)

(* -------------------------------- C26 ---------------------------------- *)

RECURSIVE SumTo(_, _)
SumTo(lens, k) == IF k = 0 THEN 0 ELSE lens[k] + SumTo(lens, k - 1)

\* the boundaries of q at which a blended run was yielded
BlendedBoundaries(q) == {i \in 1..q.nchunks : CrossRuns(q, i) # {}}

C27_EventuallyTerminal ==
    \A r \in Reqs :
        [](req[r].statusLog # <<>> =>
              <>(/\ req[r].statusLog # <<>>
                 /\ LastStatus(req[r]) \in {"COMPLETED", "ERROR"}))

(* -------------------------------- C28 ---------------------------------- *)

Internals == {r \in Reqs : req[r].mode = "internal"}

\* C28: generate_speech_internal has handed back a buffer only if its last
\* status is COMPLETED and a call was made and returned for every chunk, of
\* which there is at least one, and the buffer then holds every sample of
\* every chunk in order; a request that raised has status ERROR and handed
\* back nothing; a request with no chunk raised.
C28_AllOrNothing ==
    \A r \in Internals :
        LET q == req[r]
        IN  /\ q.hasBuffer =>
                    /\ q.pc = "done" /\ LastStatus(q) = "COMPLETED"
                    /\ q.nchunks >= 1
                    /\ q.calls = [k \in 1..q.nchunks |-> k - 1]
                    /\ Len(q.returned) = q.nchunks
                    /\ Len(q.buffer) = SumTo(q.returned, q.nchunks)
                    /\ \A i \in 0..(q.nchunks - 1) : \A j \in 0..(Returned(q, i) - 1) :
                            q.buffer[SumTo(q.returned, i) + j + 1] = EngineSample(i, j, q.wave)
            /\ q.pc = "raised" =>
                    /\ LastStatus(q) = "ERROR"
                    /\ ~q.hasBuffer /\ q.buffer = <<>>
            /\ (q.split /\ q.nchunks = 0) => q.pc = "raised"
            /\ q.pc = "done" => q.hasBuffer

\* the engine raised on the second chunk after the first was synthesized
C28_Witness ==
    \E r \in Internals :
        /\ req[r].pc = "raised" /\ req[r].raisedAt = 1
        /\ Len(req[r].returned) = 1 /\ req[r].returned[1] > 0
        /\ ~req[r].hasBuffer

(* -------------------------------- C29 ---------------------------------- *)

\* how many times tensor t was passed to safe_delete_tensors by request q
TimesDeleted(q, t) == Cardinality({k \in 1..Len(q.deletes) : q.deletes[k] = t})

\* C29: once generate_speech_internal has left through its finally clause
\* with at least one chunk synthesized, every synthesized tensor was passed
\* to safe_delete_tensors exactly once and audio_chunks is empty.
C29_EachTensorDeletedOnce ==
    \A r \in Internals :
        LET q == req[r]
        IN  (q.fin /\ Len(q.returned) >= 1) =>
                /\ q.audio_chunks = <<>>
                /\ \A t \in 0..(Len(q.returned) - 1) : TimesDeleted(q, t) = 1

(* -------------------------------- C30 ---------------------------------- *)

\* C30: the temporary voice file of a request is unlinked only when no
\* model.generate call of that request is still in the executor.
C30_NoUnlinkDuringSynthesis ==
    \A r \in Reqs : req[r].temp_voice = "unlinked" => req[r].running = 0

(* -------------------------------- C31 ---------------------------------- *)

\* the header the client holds is the start of the body, 44 bytes at most
C31_HeaderIsFirst44 ==
    client.wav_header = SubSeq(client.body, 1, Len(client.wav_header))
        /\ Len(client.wav_header) <= 44

\* what was played so far is the run of body bytes that starts at byte 45
C31_PlayedInOrder ==
    client.played = SubSeq(client.body, 45, 44 + Len(client.played))

\* C31: however the transport cuts a body of 44 bytes or more into chunks,
\* the client takes exactly its first 44 bytes as the header, plays bytes
\* from byte 45 on in stream order, each once, and when it has stopped it
\* has played every byte after the header.
C31_EveryLaterBytePlayedOnce ==
    /\ C31_HeaderIsFirst44
    /\ C31_PlayedInOrder
    /\ (client.pc \in {"done", "failed"} /\ Len(client.body) >= 44) =>
            /\ Len(client.wav_header) = 44
            /\ client.played = SubSeq(client.body, 45, Len(client.body))

====
